---- MODULE Spec2Model ----
(***************************************************************************)
(* Verification model of the robot pick-and-place planners.                *)
(*                                                                         *)
(*   - IndustrialRobotScheduler of src/test.py (FK/IK planner with the     *)
(*     collision resolver): specification Spec.                            *)
(*   - IndustrialRobotScheduler of src/desktop/solver.py (the planner the  *)
(*     desktop application runs): specification SpecDesktop.               *)
(*   - load_from_lines of src/test.py on an input text, up to the call of  *)
(*     solve(): specification SpecLoad.                                    *)
(*   - solve_ik, move_time and interpolate of src/test.py, each called on  *)
(*     its own: specification SpecCalls.                                   *)
(*   - the prototype Scheduler of src/main.py: specification SpecProto.    *)
(*   - MainWindow of src/desktop/main_window.py with its SolverThreads:    *)
(*     specification SpecWindow.                                           *)
(*   - the animation controls of ResultsVisualPage                         *)
(*     (src/desktop/results_visual_page.py): specification SpecAnim.       *)
(*                                                                         *)
(* Lengths are integers in centimetres, times integers in milliseconds.    *)
(* process_time is a float in the source; it is kept here as an integer    *)
(* number of 1/ProcScale milliseconds so that int() is a real truncation.  *)
(* The numerical inverse kinematics (scipy L-BFGS-B) is an oracle: every   *)
(* call may fail or succeed; during synthesis a successful 5 cm move of    *)
(* robot r takes seg_ms[r] milliseconds, a value of MoveMs fixed per run.  *)
(***************************************************************************)
EXTENDS Integers, Sequences, FiniteSets, TLC

VARIABLES
    \* ---- src/test.py: fields of IndustrialRobotScheduler -----------------
    num_robots, num_operations, robot_bases, operations,
    tool_clearance, safe_distance, schedules,
    \* ---- src/test.py: control position and locals of solve() -------------
    pc, error, ret, reachable, res, times, pos, opi, moves,
    rid, wps, t, gpos, gk, gphase, gpts, joints, it, out,
    \* ---- the numerical IK / trapezoid timing seen by the planner ----------
    seg_ms,
    \* ---- src/desktop/solver.py: run_scheduler(input_lines) ----------------
    d_lines, d_pc, d_error, d_num_robots, d_num_operations, d_robot_bases,
    d_joint_params, d_tool_clearance, d_safe_distance, d_operations,
    d_assignments, d_schedules, d_out,
    \* ---- src/test.py: run_scheduler(input_lines) ---------------------------
    in_lines,
    \* ---- src/test.py: one call of a function of the planner on its own -----
    call_fn, call_args, call_done, call_ret,
    \* ---- src/main.py: the prototype Scheduler -----------------------------
    p_num_robots, p_bases, p_ops, p_tool_clearance, p_safe_dist,
    p_assigns, p_schedules, p_attempts, p_pc, p_out,
    \* ---- src/desktop/main_window.py: MainWindow and its SolverThreads -----
    w_file_path, w_text, w_operations, w_robot_bases, w_threads, w_events,
    w_shown, w_dialog, w_crashed,
    \* ---- src/desktop/results_visual_page.py: the animation ----------------
    a_current_time, a_makespan, a_is_animating, a_timer_active, a_interval,
    a_slider, a_speed, a_displayed

inputVars  == <<num_robots, num_operations, robot_bases, operations,
                tool_clearance, safe_distance, seg_ms>>
assignVars == <<reachable, res, times, pos, opi, moves>>
genVars    == <<rid, wps, t, gpos, gk, gphase, gpts, joints>>
mainVars   == <<inputVars, schedules, pc, error, ret, assignVars, genVars, it, out>>
deskFields == <<d_num_robots, d_num_operations, d_robot_bases, d_joint_params,
                d_tool_clearance, d_safe_distance, d_operations>>
deskVars   == <<d_lines, d_pc, d_error, deskFields, d_assignments, d_schedules, d_out>>
callVars   == <<call_fn, call_args, call_done, call_ret>>
protoInput == <<p_num_robots, p_bases, p_ops, p_tool_clearance, p_safe_dist>>
protoVars  == <<protoInput, p_assigns, p_schedules, p_attempts, p_pc, p_out>>
winVars    == <<w_file_path, w_text, w_operations, w_robot_bases, w_threads, w_events,
                w_shown, w_dialog, w_crashed>>
animVars   == <<a_current_time, a_makespan, a_is_animating, a_timer_active, a_interval,
                a_slider, a_speed, a_displayed>>
guiVars    == <<winVars, animVars>>
vars       == <<mainVars, deskVars, in_lines, callVars, protoVars, guiVars>>

\* ------------------------------------------------------------------------
\* Bounds of the model and constants of the program
\* ------------------------------------------------------------------------
MaxOps     == 2
ProcScale  == 2
MaxDeskOps == 2

segment_length            == 5
collision_dt_ms           == 5
max_collision_iterations  == 200
ResolveDelayMs            == 200

RobotCounts == {1, 2}
BaseOf      == << <<0, 0, 0>>, <<10, 0, 0>> >>
PickPts     == { <<5, 0, 0>> }
PlacePts    == { <<0, 0, 0>>, <<10, 0, 0>> }
ProcTimes   == { -3, 11 }
Clearances  == { 1 }
SafeDists   == { 3 }
MoveMs      == { 0, 7 }

OpSet == [pick_point : PickPts, place_point : PlacePts, process_time : ProcTimes]

\* Outcomes of one move_time() call: +inf (ok = FALSE) or a time in ms
MoveOutcomes == {[ok |-> TRUE, ms |-> m] : m \in MoveMs} \cup {[ok |-> FALSE, ms |-> 0]}

\* ------------------------------------------------------------------------
\* Arithmetic helpers
\* ------------------------------------------------------------------------
Max2(a, b) == IF a >= b THEN a ELSE b
Min2(a, b) == IF a <= b THEN a ELSE b

RECURSIVE SqrtSearch(_, _, _)
SqrtSearch(n, lo, hi) ==
    IF lo >= hi THEN lo
    ELSE LET mid == (lo + hi + 1) \div 2
         IN IF mid * mid <= n THEN SqrtSearch(n, mid, hi)
                              ELSE SqrtSearch(n, lo, mid - 1)

\* floor(sqrt(n)) for 0 <= n < 2^31
ISqrt(n) == SqrtSearch(n, 0, 46340)

\* math.dist(a, b) squared
Dist2(a, b) == (a[1] - b[1]) * (a[1] - b[1]) + (a[2] - b[2]) * (a[2] - b[2])
               + (a[3] - b[3]) * (a[3] - b[3])

\* mutant: the fractional part is not dropped (the scaled value is used)
PyInt_Scaled(h) == h

\* Python int(x) on a float x = h / ProcScale: truncation toward zero
PyInt(h) == IF h >= 0 THEN h \div ProcScale ELSE 0 - ((0 - h) \div ProcScale)

Waypoint(tm, p) == [time_ms |-> tm, x |-> p[1], y |-> p[2], z |-> p[3]]
WpPos(w) == <<w.x, w.y, w.z>>

\* ------------------------------------------------------------------------
\* interpolate(a, b): n = max(1, int(d / segment_length)) points a+(b-a)t/n
\* ------------------------------------------------------------------------
InterpN(a, b) == Max2(1, ISqrt(Dist2(a, b) \div (segment_length * segment_length)))

interpolate(a, b) ==
    LET n == InterpN(a, b)
    IN [k \in 1..n |-> << a[1] + ((b[1] - a[1]) * k) \div n,
                          a[2] + ((b[2] - a[2]) * k) \div n,
                          a[3] + ((b[3] - a[3]) * k) \div n >>]

\* ------------------------------------------------------------------------
\* get_pos_at(sched, t): position as a rational vector n / d
\* ------------------------------------------------------------------------
Rat(p, d) == [n |-> <<p[1] * d, p[2] * d, p[3] * d>>, d |-> d]

get_pos_at(sched, tm) ==
    IF sched = <<>> THEN Rat(<<0, 0, 0>>, 1)
    ELSE IF tm <= sched[1].time_ms THEN Rat(WpPos(sched[1]), 1)
    ELSE LET I == {i \in 1..(Len(sched) - 1) :
                      sched[i].time_ms <= tm /\ tm <= sched[i + 1].time_ms}
         IN IF I = {} THEN Rat(WpPos(sched[Len(sched)]), 1)
            ELSE LET i  == CHOOSE j \in I : \A k \in I : j <= k
                     d  == sched[i + 1].time_ms - sched[i].time_ms
                     f  == tm - sched[i].time_ms
                 IN [n |-> << sched[i].x * d + f * (sched[i + 1].x - sched[i].x),
                              sched[i].y * d + f * (sched[i + 1].y - sched[i].y),
                              sched[i].z * d + f * (sched[i + 1].z - sched[i].z) >>,
                     d |-> d]

\* math.dist(p, q) < m for rational points p, q and m >= 0
DistLess(p, q, m) ==
    LET dx == p.n[1] * q.d - q.n[1] * p.d
        dy == p.n[2] * q.d - q.n[2] * p.d
        dz == p.n[3] * q.d - q.n[3] * p.d
    IN dx * dx + dy * dy + dz * dz < m * m * p.d * p.d * q.d * q.d

MinSafe(sd, tc) == sd + 2 * tc

\* ------------------------------------------------------------------------
\* check_collisions(): sampled only inside the overlap of the two windows
\* ------------------------------------------------------------------------
Window(s) == IF s = <<>> THEN <<0, 0>> ELSE <<s[1].time_ms, s[Len(s)].time_ms>>

PairCollides(s1, s2, m) ==
    LET w1 == Window(s1)
        w2 == Window(s2)
        lo == Max2(w1[1], w2[1])
        hi == Min2(w1[2], w2[2])
    IN /\ ~(w1[2] < w2[1] \/ w2[2] < w1[1])
       /\ \E j \in 0..((hi - lo) \div collision_dt_ms) :
              DistLess(get_pos_at(s1, lo + j * collision_dt_ms),
                       get_pos_at(s2, lo + j * collision_dt_ms), m)

check_collisions(scheds, m) ==
    \A r1 \in 1..Len(scheds) : \A r2 \in (r1 + 1)..Len(scheds) :
        ~PairCollides(scheds[r1], scheds[r2], m)

\* resolve_collisions(): one pass of the loop body adds 200 ms to every
\* waypoint of every robot
ShiftWaypoint(w) == [w EXCEPT !.time_ms = @ + ResolveDelayMs]

ShiftSchedule(s) == [i \in 1..Len(s) |-> ShiftWaypoint(s[i])]

\* mutant: the first robot is not delayed
ShiftAll_ButFirst(scheds) ==
    [r \in 1..Len(scheds) |-> IF r = 1 THEN scheds[r] ELSE ShiftSchedule(scheds[r])]

ShiftAll(scheds) == [r \in 1..Len(scheds) |-> ShiftSchedule(scheds[r])]

\* ------------------------------------------------------------------------
\* State after load_from_lines() has read a well-formed input
\* ------------------------------------------------------------------------
MainInit ==
    /\ num_robots \in RobotCounts
    /\ num_operations \in 1..MaxOps
    /\ robot_bases = [r \in 1..num_robots |-> BaseOf[r]]
    /\ operations \in [1..num_operations -> OpSet]
    /\ tool_clearance \in Clearances
    /\ safe_distance \in SafeDists
    /\ seg_ms \in [1..num_robots -> MoveMs]
    /\ schedules = <<>>
    /\ pc = "solve"
    /\ error = ""
    /\ ret = "emit"
    /\ reachable = <<>>
    /\ res = <<>>
    /\ times = <<>>
    /\ pos = <<>>
    /\ opi = 0
    /\ moves = <<>>
    /\ rid = 0
    /\ wps = <<>>
    /\ t = 0
    /\ gpos = <<0, 0, 0>>
    /\ gk = 0
    /\ gphase = "idle"
    /\ gpts = <<>>
    /\ joints = <<>>
    /\ it = 0
    /\ out = <<>>

\* ------------------------------------------------------------------------
\* assign_operations_to_robots()
\* ------------------------------------------------------------------------
\* list.index(op): position of the first operation equal to op
FirstIndex(ops, op) == CHOOSE i \in 1..Len(ops) :
                           ops[i] = op /\ \A j \in 1..(i - 1) : ops[j] # op

\* Lines 190-199: the reachable matrix.  solve_ik is deterministic, so two
\* equal operations get the same row.
ComputeReachable ==
    /\ pc = "solve"
    /\ \E m \in [1..num_operations -> SUBSET (1..num_robots)] :
          /\ \A i, j \in 1..num_operations : operations[i] = operations[j] => m[i] = m[j]
          /\ reachable' = m
    /\ res' = [r \in 1..num_robots |-> <<>>]
    /\ times' = [r \in 1..num_robots |-> 0]
    /\ pos' = robot_bases
    /\ opi' = 1
    /\ moves' = <<>>
    /\ pc' = "assign"
    /\ UNCHANGED <<inputVars, schedules, error, ret, genVars, it, out>>

\* mutant: the reachable test is skipped
Eligible_All(i) == 1..num_robots

\* the robots the list scheduler does not skip for operation i
Eligible(i) == reachable[FirstIndex(operations, operations[i])]

\* projected completion of robot r (in 1/ProcScale ms): times[r] +
\* move_time(pos, pick) + move_time(pick, place) + 2 * process_time
Projected(r, m1, m2, op) ==
    times[r] + ProcScale * (m1[r].ms + m2[r].ms) + 2 * op.process_time

\* move_time(pos[r], pick) + move_time(pick, place) for every robot that is
\* not skipped: +inf (ok = FALSE) if either is
MoveSums(m1, m2) ==
    [r \in DOMAIN m1 |-> IF m1[r].ok /\ m2[r].ok
                         THEN [ok |-> TRUE, ms |-> m1[r].ms + m2[r].ms]
                         ELSE [ok |-> FALSE, ms |-> 0]]

\* mutant: the operation is put at the front of the robot's list
AddOp_Front(list, i) == <<i>> \o list

\* res[best].append(op)
AddOp(list, i) == Append(list, i)

\* mutant: among equal times the last robot wins (`if t <= bestt`)
Best_LastTie(cands, proj) ==
    IF cands = {} THEN 0
    ELSE CHOOSE r \in cands :
            \A q \in cands : proj[r] < proj[q] \/ (proj[r] = proj[q] /\ r >= q)

\* `if t < bestt` with r ascending: the first robot with the least finite t
Best(cands, proj) ==
    IF cands = {} THEN 0
    ELSE CHOOSE r \in cands :
            \A q \in cands : proj[r] < proj[q] \/ (proj[r] = proj[q] /\ r <= q)

\* Lines 225-236: one pass of `for op in self.operations`
AssignStep ==
    /\ pc = "assign"
    /\ opi <= num_operations
    /\ LET op == operations[opi]
       IN \E m1, m2 \in [Eligible(opi) -> MoveOutcomes] :
            LET cands == {r \in Eligible(opi) : m1[r].ok /\ m2[r].ok}
                proj  == [r \in Eligible(opi) |-> Projected(r, m1, m2, op)]
                best  == Best(cands, proj)
            IN /\ moves' = MoveSums(m1, m2)
               /\ IF best = 0
                  THEN \* res[None] raises TypeError
                       /\ pc' = "failed"
                       /\ error' = "TypeError"
                       /\ UNCHANGED <<res, times, pos, opi>>
                  ELSE /\ res' = [res EXCEPT ![best] = AddOp(@, opi)]
                       /\ times' = [times EXCEPT ![best] = proj[best]]
                       /\ pos' = [pos EXCEPT ![best] = op.place_point]
                       /\ opi' = opi + 1
                       /\ UNCHANGED <<pc, error>>
    /\ UNCHANGED <<inputVars, schedules, ret, reachable, genVars, it, out>>

\* ------------------------------------------------------------------------
\* generate_trajectory_for_robot(rid, ops), for rid = 0 .. K-1 in turn
\* ------------------------------------------------------------------------
OpOf(r, k) == operations[res[r][k]]

\* Lines 248-252 and the head of the first `for pt in interpolate(...)`
StartRobot(r) ==
    /\ rid' = r
    /\ wps' = <<Waypoint(0, robot_bases[r])>>
    /\ t' = 0
    /\ gpos' = robot_bases[r]
    /\ gk' = 1
    /\ gphase' = "approach"
    /\ joints' = <<>>
    /\ gpts' = IF Len(res[r]) >= 1
               THEN interpolate(robot_bases[r], OpOf(r, 1).pick_point)
               ELSE <<>>

\* assign returns res (its other locals are gone); solve() starts the list
\* comprehension over the robots
BeginTrajectories ==
    /\ pc = "assign"
    /\ opi > num_operations
    /\ pc' = "gen"
    /\ reachable' = <<>>
    /\ times' = <<>>
    /\ pos' = <<>>
    /\ opi' = 0
    /\ moves' = <<>>
    /\ StartRobot(1)
    /\ UNCHANGED <<inputVars, schedules, error, ret, res, it, out>>

\* Lines 254-258 / 261-265: one sub-segment.  ok: the end solve inside
\* move_time succeeded (int(inf) raises OverflowError otherwise); upd: the
\* solve of line 258 / 265, seeded with the carried joints, succeeded
\* (`or joints` keeps the old joints otherwise).  joints is the point the
\* carried joint vector solves, <<>> for the initial vector of robot_states.
GenMove ==
    /\ pc = "gen"
    /\ gk <= Len(res[rid])
    /\ gpts # <<>>
    /\ \E ok \in BOOLEAN, upd \in BOOLEAN :
          IF ok
          THEN /\ t' = t + seg_ms[rid]
               /\ wps' = Append(wps, Waypoint(t + seg_ms[rid], Head(gpts)))
               /\ gpos' = Head(gpts)
               /\ gpts' = Tail(gpts)
               /\ joints' = IF upd THEN Head(gpts) ELSE joints
               /\ UNCHANGED <<pc, error>>
          ELSE /\ pc' = "failed"
               /\ error' = "OverflowError"
               /\ UNCHANGED <<t, wps, gpos, gpts, joints>>
    /\ UNCHANGED <<inputVars, schedules, ret, assignVars, rid, gk, gphase, it, out>>

\* mutant: the dwell is subtracted
DwellEnd_Minus(tm, op) == tm - PyInt(op.process_time)

\* t += int(op.process_time)
DwellEnd(tm, op) == tm + PyInt(op.process_time)

\* Lines 259-260 and 266-268: the dwell waypoint at pick or at place
GenDwell ==
    /\ pc = "gen"
    /\ gk <= Len(res[rid])
    /\ gpts = <<>>
    /\ LET op == OpOf(rid, gk)
           t2 == DwellEnd(t, op)
       IN /\ t' = t2
          /\ IF gphase = "approach"
             THEN /\ wps' = Append(wps, Waypoint(t2, op.pick_point))
                  /\ gphase' = "transfer"
                  /\ gpts' = interpolate(op.pick_point, op.place_point)
                  /\ UNCHANGED <<gpos, gk>>
             ELSE /\ wps' = Append(wps, Waypoint(t2, op.place_point))
                  /\ gphase' = "approach"
                  /\ gpos' = op.place_point
                  /\ gk' = gk + 1
                  /\ gpts' = IF gk + 1 <= Len(res[rid])
                             THEN interpolate(op.place_point, OpOf(rid, gk + 1).pick_point)
                             ELSE <<>>
    /\ UNCHANGED <<inputVars, schedules, pc, error, ret, assignVars, rid, joints, it, out>>

\* Line 269: return wps; the comprehension moves to the next robot
GenReturn ==
    /\ pc = "gen"
    /\ gk > Len(res[rid])
    /\ schedules' = Append(schedules, wps)
    /\ IF rid < num_robots
       THEN /\ StartRobot(rid + 1)
            /\ UNCHANGED pc
       ELSE /\ pc' = "check"
            /\ rid' = 0
            /\ wps' = <<>>
            /\ t' = 0
            /\ gpos' = <<0, 0, 0>>
            /\ gk' = 0
            /\ gphase' = "idle"
            /\ gpts' = <<>>
            /\ joints' = <<>>
    /\ UNCHANGED <<inputVars, error, ret, assignVars, it, out>>

\* ------------------------------------------------------------------------
\* solve(): collision check, resolver, output
\* ------------------------------------------------------------------------
Collision == ~check_collisions(schedules, MinSafe(safe_distance, tool_clearance))

\* Line 315-316
SolveCheck ==
    /\ pc = "check"
    /\ IF num_robots > 1 /\ Collision
       THEN /\ pc' = "resolve"
            /\ it' = 0
       ELSE /\ pc' = "emit"
            /\ UNCHANGED it
    /\ UNCHANGED <<inputVars, schedules, error, ret, assignVars, genVars, out>>

\* mutant: the loop body runs without testing check_collisions
ResolveIterate_NoTest ==
    /\ pc = "resolve"
    /\ it < max_collision_iterations
    /\ schedules' = ShiftAll(schedules)
    /\ it' = it + 1
    /\ UNCHANGED <<inputVars, pc, error, ret, assignVars, genVars, out>>

\* Lines 302-306: one pass of the while loop
ResolveIterate ==
    /\ pc = "resolve"
    /\ Collision
    /\ it < max_collision_iterations
    /\ schedules' = ShiftAll(schedules)
    /\ it' = it + 1
    /\ UNCHANGED <<inputVars, pc, error, ret, assignVars, genVars, out>>

\* mutant: the loop gives up silently after the last pass
ResolveRaise_Silent ==
    /\ pc = "resolve"
    /\ Collision
    /\ it >= max_collision_iterations
    /\ pc' = ret
    /\ UNCHANGED <<inputVars, schedules, error, ret, assignVars, genVars, it, out>>

\* Lines 307-308: the loop ended with collisions left
ResolveRaise ==
    /\ pc = "resolve"
    /\ Collision
    /\ it >= max_collision_iterations
    /\ pc' = "failed"
    /\ error' = "ValueError"
    /\ UNCHANGED <<inputVars, schedules, ret, assignVars, genVars, it, out>>

\* resolve_collisions returns normally
ResolveReturn ==
    /\ pc = "resolve"
    /\ ~Collision
    /\ pc' = ret
    /\ UNCHANGED <<inputVars, schedules, error, ret, assignVars, genVars, it, out>>

\* mutant: the last time of the first robot only
Makespan_First(scheds) == scheds[1][Len(scheds[1])].time_ms

\* Line 318
Makespan(scheds) ==
    LET L == {scheds[r][Len(scheds[r])].time_ms : r \in {q \in 1..Len(scheds) : scheds[q] # <<>>}}
    IN CHOOSE m \in L : \A q \in L : q <= m

\* Lines 321-329: the header and waypoint lines of robot r
RobotLines(r, s) ==
    IF s = <<>>
    THEN << [kind |-> "robot", r |-> r, m |-> 1],
            [kind |-> "wp", t |-> 0, p |-> robot_bases[r]] >>
    ELSE << [kind |-> "robot", r |-> r, m |-> Len(s)] >>
         \o [i \in 1..Len(s) |-> [kind |-> "wp", t |-> s[i].time_ms, p |-> WpPos(s[i])]]

RECURSIVE OutLines(_, _)
OutLines(scheds, r) ==
    IF r > Len(scheds) THEN <<>>
    ELSE RobotLines(r, scheds[r]) \o OutLines(scheds, r + 1)

\* Lines 318-331
Emit ==
    /\ pc = "emit"
    /\ out' = << [kind |-> "makespan", t |-> Makespan(schedules)] >> \o OutLines(schedules, 1)
    /\ pc' = "done"
    /\ UNCHANGED <<inputVars, schedules, error, ret, assignVars, genVars, it>>

\* resolve_collisions() called once more on the planner that returned a plan
CallResolve ==
    /\ pc = "done"
    /\ ret = "emit"
    /\ pc' = "resolve"
    /\ ret' = "done"
    /\ it' = 0
    /\ UNCHANGED <<inputVars, schedules, error, assignVars, genVars, out>>

MainNext ==
    \/ ComputeReachable
    \/ AssignStep
    \/ BeginTrajectories
    \/ GenMove
    \/ GenDwell
    \/ GenReturn
    \/ SolveCheck
    \/ ResolveIterate
    \/ ResolveRaise
    \/ ResolveReturn
    \/ Emit
    \/ CallResolve

\* ------------------------------------------------------------------------
\* src/desktop/solver.py: the planner run by the desktop application
\* ------------------------------------------------------------------------
\* An input line is the sequence of its numeric fields; a blank line is <<>>.
max_reach == 170

\* TCP at home_theta relative to the base (forward kinematics of the DH
\* table, -0.0947 -0.1092 0.9887 m), in whole centimetres
HomeOffset == <<-9, -11, 99>>

DeskRobotCounts == {0, 1, 2}
DeskBaseOf      == << <<0, 0, 0>>, <<150, 0, 0>> >>
GoodJoint       == <<-170, 170, 90, 45>>
JointLines      == { GoodJoint, <<170, -170, 90, 45>>, <<-170, 170, 0, 45>>,
                     <<-170, 170, 90, -45>> }
SafetyLines     == { <<10, 20>>, <<-1, 20>>, <<10, 0>> }
DeskOpLines     == { <<50, 0, 0, 100, 0, 0, 11>>, <<400, 0, 0, 50, 0, 0, 0>>,
                     <<50, 0, 0, 100, 0, 0, -3>>, <<140, 0, 0, 0, 0, 100, 0>> }
JointCounts     == {5, 6}
ExtraOpLines    == {0, 1}
BlankAfter      == {0, 1, 3}

\* the text of an input file: header, bases, joint lines, safety line,
\* operation lines, with a blank line after line `blank` (0: none)
InputText(k, n, j1, nj, sl, ops, blank) ==
    LET body == << <<k, n>> >>
                \o [r \in 1..k |-> DeskBaseOf[r]]
                \o [i \in 1..nj |-> IF i = 1 THEN j1 ELSE GoodJoint]
                \o << sl >>
                \o ops
    IN IF blank = 0 \/ blank > Len(body) THEN body
       ELSE SubSeq(body, 1, blank) \o << <<>> >> \o SubSeq(body, blank + 1, Len(body))

DeskInit ==
    /\ \E k \in DeskRobotCounts, n \in 0..MaxDeskOps, j1 \in JointLines, nj \in JointCounts,
          sl \in SafetyLines, x \in ExtraOpLines, blank \in BlankAfter :
          \E ops \in [1..(n + x) -> DeskOpLines] :
              d_lines = InputText(k, n, j1, nj, sl, ops, blank)
    /\ d_pc = "load"
    /\ d_error = ""
    /\ d_num_robots = 0
    /\ d_num_operations = 0
    /\ d_robot_bases = <<>>
    /\ d_joint_params = <<>>
    /\ d_tool_clearance = 0
    /\ d_safe_distance = 0
    /\ d_operations = <<>>
    /\ d_assignments = <<>>
    /\ d_schedules = <<>>
    /\ d_out = <<>>

\* lines = [l.strip() for l in lines if l.strip()]
NonEmptyLines(lines) == SelectSeq(lines, LAMBDA l : l # <<>>)

JointParams(l) == [min_angle |-> l[1], max_angle |-> l[2],
                   max_velocity |-> l[3], max_acceleration |-> l[4]]

Operation(l) == [pick_point |-> <<l[1], l[2], l[3]>>,
                 place_point |-> <<l[4], l[5], l[6]>>,
                 process_time |-> l[7]]

\* mutant: the acceleration is not tested
BadJoint_NoAcc(l) ==
    \/ Len(l) # 4
    \/ l[1] > l[2]
    \/ l[3] <= 0

\* Lines 83-86 (a wrong field count raises TypeError in JointParams(*...))
BadJoint(l) ==
    \/ Len(l) # 4
    \/ l[1] > l[2]
    \/ l[3] <= 0
    \/ l[4] <= 0

\* Lines 92-94
BadSafety(l) ==
    \/ Len(l) # 2
    \/ l[1] < 0
    \/ l[2] <= 0

\* Lines 100-109 (fewer than seven fields raises IndexError)
BadOperation(l) ==
    \/ Len(l) < 7
    \/ l[7] < 0

\* Line 68
ExpectedLines(k, n) == 1 + k + 6 + 1 + n

\* load_from_lines: "" when the input is accepted, else the exception raised
LoadError(lines) ==
    LET L == NonEmptyLines(lines)
    IN IF L = <<>> THEN "Empty input"
       ELSE IF Len(L[1]) # 2 \/ L[1][1] <= 0 \/ L[1][2] <= 0 THEN "Invalid K or N format"
       ELSE LET k == L[1][1]
                n == L[1][2]
            IN IF Len(L) # ExpectedLines(k, n) THEN "Expected lines"
               ELSE IF \E i \in 1..k : Len(L[1 + i]) # 3
                    THEN "Invalid robot base coordinates format"
               ELSE IF \E i \in 1..6 : BadJoint(L[1 + k + i])
                    THEN "Invalid joint parameters format"
               ELSE IF BadSafety(L[1 + k + 6 + 1])
                    THEN "Invalid safety parameters format"
               ELSE IF \E i \in 1..n : BadOperation(L[1 + k + 6 + 1 + i])
                    THEN "Invalid operation format"
               ELSE ""

\* Lines 56-111 and 277-279: run_scheduler loads the input or raises
D_Load ==
    /\ d_pc = "load"
    /\ LET L == NonEmptyLines(d_lines)
           e == LoadError(d_lines)
       IN IF e # ""
          THEN /\ d_pc' = "failed"
               /\ d_error' = e
               /\ UNCHANGED deskFields
          ELSE LET k == L[1][1]
                   n == L[1][2]
               IN /\ d_pc' = "assign"
                  /\ d_num_robots' = k
                  /\ d_num_operations' = n
                  /\ d_robot_bases' = [r \in 1..k |-> L[1 + r]]
                  /\ d_joint_params' = [i \in 1..6 |-> JointParams(L[1 + k + i])]
                  /\ d_tool_clearance' = L[1 + k + 7][1]
                  /\ d_safe_distance' = L[1 + k + 7][2]
                  /\ d_operations' = [i \in 1..n |-> Operation(L[1 + k + 7 + i])]
                  /\ UNCHANGED d_error
    /\ UNCHANGED <<d_lines, d_assignments, d_schedules, d_out>>

\* Lines 202-209: the nearest base to the pick point, robot 0 by default,
\* replaced only on a strictly smaller distance
NearestBase(op) ==
    CHOOSE r \in 1..d_num_robots :
        \A q \in 1..d_num_robots :
            \/ Dist2(op.pick_point, d_robot_bases[r]) < Dist2(op.pick_point, d_robot_bases[q])
            \/ (Dist2(op.pick_point, d_robot_bases[r]) = Dist2(op.pick_point, d_robot_bases[q])
                /\ r <= q)

\* Lines 197-213: assign_operations_to_robots (operations by input index)
D_Assign ==
    /\ d_pc = "assign"
    /\ d_assignments' = [r \in 1..d_num_robots |->
                            SelectSeq([i \in 1..d_num_operations |-> i],
                                      LAMBDA i : NearestBase(d_operations[i]) = r)]
    /\ d_pc' = "gen"
    /\ UNCHANGED <<d_lines, d_error, deskFields, d_schedules, d_out>>

\* Lines 166-170
get_home_position(base) ==
    <<base[1] + HomeOffset[1], base[2] + HomeOffset[2], base[3] + HomeOffset[3]>>

\* int(norm(b - a) / 0.3 * 1000) with lengths in cm: floor(sqrt(d2) * 100 / 3)
DeskMoveMs(a, b) == ISqrt((Dist2(a, b) * 10000) \div 9)

\* Lines 228-243: the waypoints of the operations ops[k..], from position p
\* at time tm
RECURSIVE DeskOpsWps(_, _, _, _)
DeskOpsWps(ops, k, p, tm) ==
    IF k > Len(ops) THEN <<>>
    ELSE LET op == d_operations[ops[k]]
             t1 == tm + DeskMoveMs(p, op.pick_point)
             t2 == t1 + PyInt(op.process_time)
             t3 == t2 + DeskMoveMs(op.pick_point, op.place_point)
         IN << Waypoint(t1, op.pick_point), Waypoint(t2, op.pick_point),
               Waypoint(t3, op.place_point) >>
            \o DeskOpsWps(ops, k + 1, op.place_point, t3)

\* Lines 215-250: generate_trajectory_for_robot
DeskTrajectory(r, ops) ==
    IF ops = <<>> THEN <<>>
    ELSE LET home == get_home_position(d_robot_bases[r])
             body == <<Waypoint(0, home)>> \o DeskOpsWps(ops, 1, home, 0)
             last == body[Len(body)]
         IN body \o <<Waypoint(last.time_ms + DeskMoveMs(WpPos(last), home), home)>>

\* Lines 257-259: one pass of `for r in range(self.num_robots)`
D_Generate ==
    /\ d_pc = "gen"
    /\ Len(d_schedules) < d_num_robots
    /\ d_schedules' = Append(d_schedules,
                             DeskTrajectory(Len(d_schedules) + 1,
                                            d_assignments[Len(d_schedules) + 1]))
    /\ UNCHANGED <<d_lines, d_pc, d_error, deskFields, d_assignments, d_out>>

\* Line 261
DeskMakespan(scheds) ==
    LET L == {scheds[r][Len(scheds[r])].time_ms : r \in {q \in 1..Len(scheds) : scheds[q] # <<>>}}
    IN IF L = {} THEN 0 ELSE CHOOSE m \in L : \A q \in L : q <= m

\* Lines 264-272
DeskRobotLines(r, s) ==
    IF s = <<>>
    THEN << [kind |-> "robot", r |-> r, m |-> 1],
            [kind |-> "wp", t |-> 0, p |-> get_home_position(d_robot_bases[r])] >>
    ELSE << [kind |-> "robot", r |-> r, m |-> Len(s)] >>
         \o [i \in 1..Len(s) |-> [kind |-> "wp", t |-> s[i].time_ms, p |-> WpPos(s[i])]]

RECURSIVE DeskOutLines(_, _)
DeskOutLines(scheds, r) ==
    IF r > Len(scheds) THEN <<>>
    ELSE DeskRobotLines(r, scheds[r]) \o DeskOutLines(scheds, r + 1)

\* Lines 261-274: the output of solve(), returned by run_scheduler
D_Emit ==
    /\ d_pc = "gen"
    /\ Len(d_schedules) = d_num_robots
    /\ d_out' = << [kind |-> "makespan", t |-> DeskMakespan(d_schedules)] >>
                \o DeskOutLines(d_schedules, 1)
    /\ d_pc' = "done"
    /\ UNCHANGED <<d_lines, d_error, deskFields, d_assignments, d_schedules>>

DeskNext ==
    \/ D_Load
    \/ D_Assign
    \/ D_Generate
    \/ D_Emit

\* ------------------------------------------------------------------------
\* src/test.py: load_from_lines() as run_scheduler calls it
\* ------------------------------------------------------------------------
\* Line 95: lines = [l.strip() for l in lines if l.strip()]
StripLines(lines) == SelectSeq(lines, LAMBDA l : l # <<>>)

\* Line 111: Operation(tuple(vals[0:3]), tuple(vals[3:6]), vals[6])
MainOperation(l) == [pick_point |-> <<l[1], l[2], l[3]>>,
                     place_point |-> <<l[4], l[5], l[6]>>,
                     process_time |-> l[7]]

\* Line 102: JointParams(*map(float, ...)) for six lines after the bases;
\* the first line that is missing (IndexError) or has not four fields
\* (TypeError) decides
JointLinesError(L, k) ==
    LET bad == {i \in 1..6 : 1 + k + i > Len(L) \/ Len(L[1 + k + i]) # 4}
    IN IF bad = {} THEN ""
       ELSE LET i == CHOOSE j \in bad : \A h \in bad : j <= h
            IN IF 1 + k + i > Len(L) THEN "IndexError" ELSE "TypeError"

\* Lines 94-115 for K >= 0: "" when the input is loaded, else the exception
\* raised by the unpacking or indexing; no value is tested
MainLoadError(lines) ==
    LET L == StripLines(lines)
    IN IF L = <<>> THEN "IndexError"
       ELSE IF Len(L[1]) # 2 THEN "ValueError"
       ELSE LET k == L[1][1]
                n == L[1][2]
            IN IF Len(L) < 1 + k THEN "IndexError"
               ELSE IF JointLinesError(L, k) # "" THEN JointLinesError(L, k)
               ELSE IF Len(L) < 1 + k + 7 THEN "IndexError"
               ELSE IF Len(L[1 + k + 7]) # 2 THEN "ValueError"
               ELSE IF \E i \in 1..n : \/ 1 + k + 7 + i > Len(L)
                                       \/ Len(L[1 + k + 7 + i]) < 7
                    THEN "IndexError"
               ELSE ""

\* run_scheduler lines 339-342: load_from_lines(input_lines), then solve()
\* is entered unless the load raised
LoadLines ==
    /\ pc = "load"
    /\ LET L == StripLines(in_lines)
           e == MainLoadError(in_lines)
       IN IF e # ""
          THEN /\ pc' = "failed"
               /\ error' = e
               /\ UNCHANGED <<num_robots, num_operations, robot_bases, operations,
                              tool_clearance, safe_distance>>
          ELSE LET k == L[1][1]
                   n == L[1][2]
               IN /\ num_robots' = k
                  /\ num_operations' = n
                  /\ robot_bases' = [r \in 1..k |-> L[1 + r]]
                  /\ tool_clearance' = L[1 + k + 7][1]
                  /\ safe_distance' = L[1 + k + 7][2]
                  /\ operations' = [i \in 1..n |-> MainOperation(L[1 + k + 7 + i])]
                  /\ pc' = "solve"
                  /\ error' = ""
    /\ UNCHANGED <<seg_ms, schedules, ret, assignVars, genVars, it, out, in_lines>>

LoadNext == LoadLines

\* ------------------------------------------------------------------------
\* The text of the output (src/test.py solve) and its reader
\* (src/desktop/results_visual_page.py parse_results)
\* ------------------------------------------------------------------------
\* A text line is the sequence of its blank-separated tokens.  An integer
\* token is its sign and decimal digits; the token R<i> is [R |-> digits];
\* a coordinate token stands for the number printed with one decimal.
RECURSIVE DigitsOf(_)
DigitsOf(n) == IF n < 10 THEN <<n>> ELSE Append(DigitsOf(n \div 10), n % 10)

\* str(n) of an int
StrInt(n) == [neg |-> n < 0, digits |-> DigitsOf(IF n < 0 THEN -n ELSE n)]

RECURSIVE DigitsValue(_)
DigitsValue(ds) ==
    IF ds = <<>> THEN 0
    ELSE 10 * DigitsValue(SubSeq(ds, 1, Len(ds) - 1)) + ds[Len(ds)]

\* int(token) and int(float(token)) of a token without a fraction
IntOfStr(tok) == IF tok.neg THEN -DigitsValue(tok.digits) ELSE DigitsValue(tok.digits)

\* mutant: the line is printed without its first token
FormatLine_Short(l) ==
    IF l.kind = "makespan" THEN << StrInt(l.t) >>
    ELSE IF l.kind = "robot" THEN << [R |-> StrInt(l.r)], StrInt(l.m) >>
    ELSE << l.p[1], l.p[2], l.p[3] >>

\* src/test.py lines 319, 324-329: the f-strings of the three kinds of line
FormatLine(l) ==
    IF l.kind = "makespan" THEN << StrInt(l.t) >>
    ELSE IF l.kind = "robot" THEN << [R |-> StrInt(l.r)], StrInt(l.m) >>
    ELSE << StrInt(l.t), l.p[1], l.p[2], l.p[3] >>

\* the list of strings solve() returns
OutText(lines) == [i \in 1..Len(lines) |-> FormatLine(lines[i])]

ParseFailed == [ok |-> FALSE, makespan |-> 0, robots |-> <<>>]

\* parse_results lines 56-64: the while loop from line index i on; a header
\* must split into two tokens and each of the m lines after it into four
RECURSIVE ParseRobots(_, _)
ParseRobots(results, i) ==
    IF i > Len(results) THEN [ok |-> TRUE, robots |-> <<>>]
    ELSE IF Len(results[i]) # 2 THEN [ok |-> FALSE, robots |-> <<>>]
    ELSE LET r_id == results[i][1]
             m    == IntOfStr(results[i][2])
         IN IF m < 0 \/ i + m > Len(results)
               \/ \E j \in (i + 1)..(i + m) : Len(results[j]) # 4
            THEN [ok |-> FALSE, robots |-> <<>>]
            ELSE LET rest == ParseRobots(results, i + m + 1)
                 IN IF ~rest.ok THEN rest
                    ELSE [ok |-> TRUE,
                          robots |-> rest.robots @@
                                     (r_id :> [j \in 1..m |-> IntOfStr(results[i + j][1])])]

\* parse_results lines 52-66
parse_results(results) ==
    IF results = <<>> \/ Len(results[1]) # 1 THEN ParseFailed
    ELSE LET rb == ParseRobots(results, 2)
         IN IF ~rb.ok THEN ParseFailed
            ELSE [ok |-> TRUE, makespan |-> IntOfStr(results[1][1]), robots |-> rb.robots]

\* ------------------------------------------------------------------------
\* src/test.py: solve_ik, joint_time, move_time and interpolate called on
\* their own
\* ------------------------------------------------------------------------
\* What scipy's minimize hands back to solve_ik: res.success, res.x in whole
\* degrees, and the distance |FK(res.x) - target| in tenths of a millimetre.
\* L-BFGS-B reports success when it has converged, whatever the distance
\* left, and np.degrees(np.radians(max_angle)) may exceed max_angle by a
\* rounding error (the angle one above the limit stands for that).
IkAngles   == {0, 90, 171}
IkErrors   == {5, 18000}
JointVecs  == {<<a, b, 0, 0, 0, 0>> : a \in IkAngles, b \in IkAngles}
IkOutcomes == [success : BOOLEAN, x : JointVecs, err : IkErrors]
ZeroJoints == <<0, 0, 0, 0, 0, 0>>
CallJointParams == [i \in 1..6 |-> JointParams(GoodJoint)]
InterpPts  == {<<x, y, 0>> : x \in {0, 3, 5, 6, 7, 10, 12, 15}, y \in {0, 4, 8}}
\* joint travels between two angles inside [-170, 170], and joint
\* parameters whose boundary travel v * v / a is a whole number of degrees
MaxDelta   == GoodJoint[2] - GoodJoint[1]
JointTimeParams == { JointParams(GoodJoint), JointParams(<<-170, 170, 60, 30>>),
                     JointParams(<<-170, 170, 30, 90>>) }

\* the value None
None == <<>>

WithinLimits(x, jp) ==
    \A i \in 1..6 : jp[i].min_angle <= x[i] /\ x[i] <= jp[i].max_angle

\* Lines 161-167 on the result opt of minimize
solve_ik(opt, jp) ==
    IF opt.success /\ WithinLimits(opt.x, jp) THEN opt.x ELSE None

\* Line 176, in whole milliseconds (rounded down): 2 * sqrt(s / a)
TriangularMs(s, p) == ISqrt((4000000 * s) \div p.max_acceleration)

\* mutant: the two ramps are left out of the trapezoid
TrapezoidMs_NoRamps(s, p) ==
    (1000 * (s * p.max_acceleration - p.max_velocity * p.max_velocity))
        \div (p.max_acceleration * p.max_velocity)

\* Line 177, in whole milliseconds (rounded down): 2 * t_acc + (s - 2 * s_acc) / v
\* with t_acc = v / a and 2 * s_acc = v * v / a
TrapezoidMs(s, p) ==
    (1000 * (p.max_velocity * p.max_velocity + s * p.max_acceleration))
        \div (p.max_acceleration * p.max_velocity)

\* Line 175: 2 * s_acc >= s, for a > 0
TriangularCase(s, p) == p.max_velocity * p.max_velocity >= s * p.max_acceleration

\* Lines 169-177 for a joint travel of s >= 0 degrees
joint_time(s, p) ==
    IF TriangularCase(s, p) THEN TriangularMs(s, p) ELSE TrapezoidMs(s, p)

Abs(x) == IF x < 0 THEN -x ELSE x

MaxOf(S) == CHOOSE m \in S : \A q \in S : q <= m

\* Lines 179-186: the start solve falls back on start_joints (`or`), the
\* end solve decides between +inf and the slowest joint's time
move_time(start_joints, res_start, res_end, jp) ==
    LET sol == solve_ik(res_start, jp)
        s   == IF sol = None THEN start_joints ELSE sol
        e   == solve_ik(res_end, jp)
    IN IF e = None THEN [inf |-> TRUE, ms |-> 0]
       ELSE [inf |-> FALSE,
             ms |-> MaxOf({joint_time(Abs(e[i] - s[i]), jp[i]) : i \in 1..6})]

\* the points a + (b - a) * k / n of interpolate are whole centimetres
InterpExact(a, b) ==
    \A c \in 1..3, k \in 1..InterpN(a, b) : ((b[c] - a[c]) * k) % InterpN(a, b) = 0

CallIdle ==
    /\ call_fn = "none"
    /\ call_args = <<>>
    /\ call_done = FALSE
    /\ call_ret = <<>>

CallInit ==
    /\ \/ /\ call_fn = "solve_ik"
          /\ \E o \in IkOutcomes : call_args = [res |-> o]
       \/ /\ call_fn = "move_time"
          /\ \E o1 \in IkOutcomes, o2 \in IkOutcomes :
                call_args = [start_joints |-> ZeroJoints, res_start |-> o1, res_end |-> o2]
       \/ /\ call_fn = "interpolate"
          /\ \E a \in InterpPts, b \in InterpPts :
                /\ InterpExact(a, b)
                /\ call_args = [a |-> a, b |-> b]
       \/ /\ call_fn = "joint_time"
          /\ \E d \in (0 - MaxDelta)..MaxDelta, p \in JointTimeParams :
                call_args = [delta |-> d, p |-> p]
    /\ call_done = FALSE
    /\ call_ret = <<>>

Call_solve_ik ==
    /\ call_fn = "solve_ik"
    /\ ~call_done
    /\ call_ret' = solve_ik(call_args.res, CallJointParams)
    /\ call_done' = TRUE
    /\ UNCHANGED <<call_fn, call_args>>

Call_move_time ==
    /\ call_fn = "move_time"
    /\ ~call_done
    /\ call_ret' = move_time(call_args.start_joints, call_args.res_start,
                             call_args.res_end, CallJointParams)
    /\ call_done' = TRUE
    /\ UNCHANGED <<call_fn, call_args>>

Call_interpolate ==
    /\ call_fn = "interpolate"
    /\ ~call_done
    /\ call_ret' = interpolate(call_args.a, call_args.b)
    /\ call_done' = TRUE
    /\ UNCHANGED <<call_fn, call_args>>

\* Line 171: s = abs(delta)
Call_joint_time ==
    /\ call_fn = "joint_time"
    /\ ~call_done
    /\ call_ret' = joint_time(Abs(call_args.delta), call_args.p)
    /\ call_done' = TRUE
    /\ UNCHANGED <<call_fn, call_args>>

CallNext ==
    \/ Call_solve_ik
    \/ Call_move_time
    \/ Call_interpolate
    \/ Call_joint_time

\* ------------------------------------------------------------------------
\* src/main.py: the prototype Scheduler.  Lengths in millimetres, times in
\* milliseconds; the arm moves at 1 m/s, so a straight move of d mm takes
\* d ms.  The inputs keep all points on the x axis, where distances and
\* interpolated positions are whole numbers.
\* ------------------------------------------------------------------------
MaxProtoOps     == 2
ProtoRobotCounts == {1, 2}
ProtoBaseOf     == << <<0, 0, 0>>, <<1500, 0, 0>> >>
ProtoOpSet      == { [pick |-> <<500, 0, 0>>,  place |-> <<1000, 0, 0>>, t |-> 500],
                     [pick |-> <<500, 0, 0>>,  place |-> <<1300, 0, 0>>, t |-> 500],
                     [pick |-> <<3600, 0, 0>>, place |-> <<1000, 0, 0>>, t |-> 500],
                     [pick |-> <<1200, 0, 0>>, place |-> <<700, 0, 0>>,  t |-> 100],
                     [pick |-> <<700, 0, 0>>,  place |-> <<300, 0, 0>>,  t |-> 100],
                     [pick |-> <<1000, 0, 0>>, place |-> <<1600, 0, 0>>, t |-> 500] }

\* the Scheduler after load_data (lines 28-35) has read a well-formed input
ProtoInit ==
    /\ p_num_robots \in ProtoRobotCounts
    /\ p_bases = [r \in 1..p_num_robots |-> ProtoBaseOf[r]]
    /\ \E n \in 1..MaxProtoOps : p_ops \in [1..n -> ProtoOpSet]
    /\ p_tool_clearance = 100
    /\ p_safe_dist = 200
    /\ p_assigns = <<>>
    /\ p_schedules = <<>>
    /\ p_attempts = 0
    /\ p_pc = "assign"
    /\ p_out = <<>>

ProtoIdle ==
    /\ p_num_robots = 0
    /\ p_bases = <<>>
    /\ p_ops = <<>>
    /\ p_tool_clearance = 0
    /\ p_safe_dist = 0
    /\ p_assigns = <<>>
    /\ p_schedules = <<>>
    /\ p_attempts = 0
    /\ p_pc = "idle"
    /\ p_out = <<>>

\* Lines 37-39: dist <= 2.0
proto_is_reachable(point, base) == Dist2(point, base) <= 2000 * 2000

\* Lines 44-51: the nearest base among the robots that reach pick and
\* place, the lowest index among equals; 0 stands for best_robot == -1
ProtoBestRobot(op) ==
    LET ok == {r \in 1..p_num_robots : /\ proto_is_reachable(op.pick, p_bases[r])
                                        /\ proto_is_reachable(op.place, p_bases[r])}
    IN IF ok = {} THEN 0
       ELSE CHOOSE r \in ok :
               \A q \in ok : \/ Dist2(p_bases[r], op.pick) < Dist2(p_bases[q], op.pick)
                             \/ /\ Dist2(p_bases[r], op.pick) = Dist2(p_bases[q], op.pick)
                                /\ r <= q

\* Lines 42-54: the operations of robot r, in input order; an operation
\* with best_robot == -1 is in no list
proto_assign_ops(r) ==
    SelectSeq(p_ops, LAMBDA op : ProtoBestRobot(op) = r)

\* Lines 56-59
calc_time(p1, p2) == ISqrt(Dist2(p1, p2))

\* Lines 66-77 for the operations from index k on, at time tm and
\* position cur
RECURSIVE ProtoOpsTraj(_, _, _, _)
ProtoOpsTraj(ops, k, tm, cur) ==
    IF k > Len(ops) THEN <<>>
    ELSE LET op == ops[k]
             t1 == tm + calc_time(cur, op.pick)
             t2 == t1 + op.t
             t3 == t2 + calc_time(op.pick, op.place)
             t4 == t3 + op.t
         IN << Waypoint(t1, op.pick), Waypoint(t2, op.pick),
               Waypoint(t3, op.place), Waypoint(t4, op.place) >>
            \o ProtoOpsTraj(ops, k + 1, t4, op.place)

\* Lines 61-78
generate_traj(r, ops) ==
    << Waypoint(0, p_bases[r]) >> \o ProtoOpsTraj(ops, 1, 0, p_bases[r])

\* Lines 80-90: the first pair of waypoints whose times enclose t_ms, else
\* the last waypoint (also before a delayed robot's first waypoint)
get_pos_at_t(traj, t_ms) ==
    LET I == {i \in 1..(Len(traj) - 1) :
                 traj[i].time_ms <= t_ms /\ t_ms <= traj[i + 1].time_ms}
    IN IF I = {} THEN WpPos(traj[Len(traj)])
       ELSE LET i == CHOOSE j \in I : \A h \in I : j <= h
                a == traj[i]
                b == traj[i + 1]
                d == b.time_ms - a.time_ms
                f == t_ms - a.time_ms
            IN IF d = 0 THEN WpPos(a)
               ELSE << a.x + (f * (b.x - a.x)) \div d,
                       a.y + (f * (b.y - a.y)) \div d,
                       a.z + (f * (b.z - a.z)) \div d >>

\* Lines 95 and 121: the largest waypoint time
ProtoMaxTime(scheds) ==
    MaxOf(UNION {{scheds[r][i].time_ms : i \in 1..Len(scheds[r])} : r \in 1..Len(scheds)})

\* Lines 92-106: samples every 0.05 s from 0 to max_t + step
proto_check_collisions(scheds) ==
    \A j \in 0..((ProtoMaxTime(scheds) + 50) \div 50) :
        \A r1 \in 1..Len(scheds) : \A r2 \in (r1 + 1)..Len(scheds) :
            Dist2(get_pos_at_t(scheds[r1], j * 50), get_pos_at_t(scheds[r2], j * 50))
                >= (p_safe_dist + 2 * p_tool_clearance) * (p_safe_dist + 2 * p_tool_clearance)

\* `not self.check_collisions()` on the current schedules
ProtoCollision == ~proto_check_collisions(p_schedules)

\* Line 118
P_Assign ==
    /\ p_pc = "assign"
    /\ p_assigns' = [r \in 1..p_num_robots |-> proto_assign_ops(r)]
    /\ p_pc' = "gen"
    /\ UNCHANGED <<protoInput, p_schedules, p_attempts, p_out>>

\* Line 119, and line 109
P_Generate ==
    /\ p_pc = "gen"
    /\ p_schedules' = [r \in 1..p_num_robots |-> generate_traj(r, p_assigns[r])]
    /\ p_attempts' = 0
    /\ p_pc' = "resolve"
    /\ UNCHANGED <<protoInput, p_assigns, p_out>>

\* Lines 110-114: one pass of the while loop delays every robot but the
\* first by 200 * (attempts + 1) ms
P_ResolveIterate ==
    /\ p_pc = "resolve"
    /\ ProtoCollision
    /\ p_attempts < 10
    /\ p_schedules' = [r \in 1..p_num_robots |->
                         IF r = 1 THEN p_schedules[r]
                         ELSE [i \in 1..Len(p_schedules[r]) |->
                                  [p_schedules[r][i] EXCEPT
                                       !.time_ms = @ + 200 * (p_attempts + 1)]]]
    /\ p_attempts' = p_attempts + 1
    /\ UNCHANGED <<protoInput, p_assigns, p_pc, p_out>>

\* Line 110: the loop ends, without collisions or with the attempts used
\* up; resolve_collisions returns in both cases
P_ResolveReturn ==
    /\ p_pc = "resolve"
    /\ ~ProtoCollision \/ p_attempts >= 10
    /\ p_pc' = "emit"
    /\ UNCHANGED <<protoInput, p_assigns, p_schedules, p_attempts, p_out>>

\* Lines 123-126: the header and waypoint lines of robot r and the robots
\* after it
RECURSIVE ProtoOutLines(_, _)
ProtoOutLines(scheds, r) ==
    IF r > Len(scheds) THEN <<>>
    ELSE << [kind |-> "robot", r |-> r, m |-> Len(scheds[r])] >>
         \o [i \in 1..Len(scheds[r]) |->
                [kind |-> "wp", t |-> scheds[r][i].time_ms, p |-> WpPos(scheds[r][i])]]
         \o ProtoOutLines(scheds, r + 1)

\* Lines 121-127
P_Emit ==
    /\ p_pc = "emit"
    /\ p_out' = << [kind |-> "makespan", t |-> ProtoMaxTime(p_schedules)] >>
                \o ProtoOutLines(p_schedules, 1)
    /\ p_pc' = "done"
    /\ UNCHANGED <<protoInput, p_assigns, p_schedules, p_attempts>>

ProtoNext ==
    \/ P_Assign
    \/ P_Generate
    \/ P_ResolveIterate
    \/ P_ResolveReturn
    \/ P_Emit

\* ------------------------------------------------------------------------
\* The desktop window (src/desktop/main_window.py) and its solver threads
\* ------------------------------------------------------------------------
\* Calculate requests made in one run of the window
MaxRequests == 3

\* Contents of the input editor, named by a number. Texts 1 and 2 are
\* well-formed inputs with different operations and bases; text 3 is rejected
\* by parse_input_data; text 4 passes parse_input_data, which skips the six
\* joint lines and the safety line without reading them, and makes
\* run_scheduler raise.
WinTexts == 1..4

WinParseFails(text) == text = 3

WinSolverFails(text) == text = 4

\* what parse_input_data returns for a well-formed text
WinOperations(text) == <<"operations", text>>

WinRobotBases(text) == <<"robot_bases", text>>

\* what run_scheduler returns for the input lines of a text
WinResults(text) == <<"results", text>>

\* MainWindow.__init__ and InitialDataPage.__init__
WinInit ==
    /\ w_file_path = FALSE
    /\ w_text = 1
    /\ w_operations = <<>>
    /\ w_robot_bases = <<>>
    /\ w_threads = <<>>
    /\ w_events = <<>>
    /\ w_shown = <<>>
    /\ w_dialog = "none"
    /\ w_crashed = FALSE

WinIdle == WinInit

\* self.solver_thread: the thread object the window still refers to
solver_thread == Len(w_threads)

\* select_file: the file content replaces the text of the editor
W_SelectFile(text) ==
    /\ ~w_crashed
    /\ w_file_path' = TRUE
    /\ w_text' = text
    /\ UNCHANGED <<w_operations, w_robot_bases, w_threads, w_events, w_shown,
                   w_dialog, w_crashed>>

\* the user edits the text of the editor
W_Edit(text) ==
    /\ ~w_crashed
    /\ text # w_text
    /\ w_text' = text
    /\ UNCHANGED <<w_file_path, w_operations, w_robot_bases, w_threads, w_events,
                   w_shown, w_dialog, w_crashed>>

\* recalculate_solver(operations, robot_bases) once file_path is set: the
\* fields are overwritten and a new SolverThread is started on the text of
\* the editor; nothing is done about a thread started earlier
recalculate_solver ==
    /\ w_operations' = WinOperations(w_text)
    /\ w_robot_bases' = WinRobotBases(w_text)
    /\ w_threads' = Append(w_threads, [input |-> w_text, state |-> "running"])

\* the Calculate button: handle_calculate, then recalculate_solver through
\* the calculate_triggered signal
W_Calculate ==
    /\ ~w_crashed
    /\ Len(w_threads) < MaxRequests
    /\ IF ~w_file_path \/ WinParseFails(w_text)
       THEN /\ w_dialog' = "warning"
            /\ UNCHANGED <<w_operations, w_robot_bases, w_threads>>
       ELSE /\ recalculate_solver
            /\ UNCHANGED w_dialog
    /\ UNCHANGED <<w_file_path, w_text, w_events, w_shown, w_crashed>>

\* SolverThread.run comes to its end in its own thread: calculation_finished
\* is emitted and queued for the main thread. A thread object the window has
\* dropped may be destroyed while Qt still counts the thread as running,
\* which ends the process
W_ThreadRun(n) ==
    /\ ~w_crashed
    /\ w_threads[n].state = "running"
    /\ w_threads' = [w_threads EXCEPT ![n].state = "emitted"]
    /\ w_events' = Append(w_events, n)
    /\ \/ w_crashed' = FALSE
       \/ n # solver_thread /\ w_crashed' = TRUE
    /\ UNCHANGED <<w_file_path, w_text, w_operations, w_robot_bases, w_shown, w_dialog>>

\* on_calculation_finished(results, error_message) in the main thread, and
\* display_results through the data_calculated signal
W_Deliver ==
    /\ ~w_crashed
    /\ w_events # <<>>
    /\ LET n    == Head(w_events)
           text == w_threads[n].input
       IN  /\ w_events' = Tail(w_events)
           /\ w_threads' = [w_threads EXCEPT ![n].state = "delivered"]
           /\ IF WinSolverFails(text)
              THEN /\ w_dialog' = "warning"
                   /\ UNCHANGED w_shown
              ELSE /\ w_shown' = Append(w_shown, [results     |-> WinResults(text),
                                                  operations  |-> w_operations,
                                                  robot_bases |-> w_robot_bases])
                   /\ w_dialog' = "information"
    /\ UNCHANGED <<w_file_path, w_text, w_operations, w_robot_bases, w_crashed>>

WinNext ==
    \/ \E text \in WinTexts : W_SelectFile(text)
    \/ \E text \in WinTexts : W_Edit(text)
    \/ W_Calculate
    \/ \E n \in 1..Len(w_threads) : W_ThreadRun(n)
    \/ W_Deliver

\* ------------------------------------------------------------------------
\* The animation of ResultsVisualPage (src/desktop/results_visual_page.py)
\* ------------------------------------------------------------------------
\* Largest makespan of a displayed result, ms
MaxMakespan == 100

\* self.step_size, ms of plan time per timer tick
step_size == 50

\* the timer interval is TimerBase - view_speed_slider.value() ms
TimerBase == 50

\* plan times and slider positions are taken on a grid of half a step
AnimGrid == step_size \div 2

AnimMakespans == {m \in 0..MaxMakespan : m % AnimGrid = 0}

\* positions the user drags the time slider to, within 0..maximum
SliderValues(m) == {v \in 0..m : v % AnimGrid = 0}

\* values of view_speed_slider that leave the interval positive
AnimSpeeds == {0, 25, 49}

\* ResultsVisualPage.__init__
AnimInit ==
    /\ a_current_time = 0
    /\ a_makespan = 0
    /\ a_is_animating = FALSE
    /\ a_timer_active = FALSE
    /\ a_interval = 0
    /\ a_slider = 0
    /\ a_speed = 0
    /\ a_displayed = FALSE

AnimIdle == AnimInit

\* display_results: setMaximum(makespan) may clamp the slider, then
\* reset_animation puts the time and the slider at 0 and stops the timer
A_Display(m) ==
    /\ a_makespan' = m
    /\ a_displayed' = TRUE
    /\ a_is_animating' = FALSE
    /\ a_timer_active' = FALSE
    /\ a_current_time' = 0
    /\ a_slider' = 0
    /\ UNCHANGED <<a_interval, a_speed>>

\* start_animation, with change_speed_timer: timer.start(50 - value)
A_Play ==
    /\ a_displayed
    /\ IF a_current_time >= a_makespan
       THEN a_current_time' = 0 /\ a_slider' = 0
       ELSE UNCHANGED <<a_current_time, a_slider>>
    /\ a_is_animating' = TRUE
    /\ a_timer_active' = TRUE
    /\ a_interval' = TimerBase - a_speed
    /\ UNCHANGED <<a_makespan, a_speed, a_displayed>>

\* pause_animation
A_Pause ==
    /\ a_displayed
    /\ a_is_animating' = FALSE
    /\ a_timer_active' = FALSE
    /\ UNCHANGED <<a_current_time, a_makespan, a_interval, a_slider, a_speed, a_displayed>>

\* reset_animation
A_Reset ==
    /\ a_displayed
    /\ a_is_animating' = FALSE
    /\ a_timer_active' = FALSE
    /\ a_current_time' = 0
    /\ a_slider' = 0
    /\ UNCHANGED <<a_makespan, a_interval, a_speed, a_displayed>>

\* view_speed_slider.valueChanged: change_speed_timer
A_Speed(v) ==
    /\ a_displayed
    /\ v # a_speed
    /\ a_speed' = v
    /\ IF a_is_animating
       THEN a_timer_active' = TRUE /\ a_interval' = TimerBase - v
       ELSE UNCHANGED <<a_timer_active, a_interval>>
    /\ UNCHANGED <<a_current_time, a_makespan, a_is_animating, a_slider, a_displayed>>

\* time_horizontalSlider.valueChanged from the user: slider_moved(value)
A_Slider(v) ==
    /\ a_displayed
    /\ v # a_slider
    /\ a_slider' = v
    /\ a_current_time' = v
    /\ UNCHANGED <<a_makespan, a_is_animating, a_timer_active, a_interval, a_speed, a_displayed>>

\* update_animation while is_animating: the time is advanced, and clamped
\* and paused only when it has gone past the makespan
update_animation ==
    IF a_current_time + step_size > a_makespan
    THEN /\ a_current_time' = a_makespan
         /\ a_is_animating' = FALSE
         /\ a_timer_active' = FALSE
    ELSE /\ a_current_time' = a_current_time + step_size
         /\ UNCHANGED <<a_is_animating, a_timer_active>>

\* timer.timeout: update_animation, then setValue(current_time) on the slider
A_Tick ==
    /\ a_timer_active
    /\ IF a_is_animating
       THEN update_animation /\ a_slider' = a_current_time'
       ELSE UNCHANGED <<a_current_time, a_is_animating, a_timer_active, a_slider>>
    /\ UNCHANGED <<a_makespan, a_interval, a_speed, a_displayed>>

AnimNext ==
    \/ \E m \in AnimMakespans : A_Display(m)
    \/ A_Play
    \/ A_Pause
    \/ A_Reset
    \/ \E v \in AnimSpeeds : A_Speed(v)
    \/ \E v \in SliderValues(a_makespan) : A_Slider(v)
    \/ A_Tick

GuiIdle == WinIdle /\ AnimIdle

\* ------------------------------------------------------------------------
\* Specifications
\* ------------------------------------------------------------------------
\* the planner of src/test.py before any input is loaded
MainIdle ==
    /\ num_robots = 0
    /\ num_operations = 0
    /\ robot_bases = <<>>
    /\ operations = <<>>
    /\ tool_clearance = 0
    /\ safe_distance = 0
    /\ seg_ms = <<>>
    /\ schedules = <<>>
    /\ pc = "idle"
    /\ error = ""
    /\ ret = "emit"
    /\ reachable = <<>>
    /\ res = <<>>
    /\ times = <<>>
    /\ pos = <<>>
    /\ opi = 0
    /\ moves = <<>>
    /\ rid = 0
    /\ wps = <<>>
    /\ t = 0
    /\ gpos = <<0, 0, 0>>
    /\ gk = 0
    /\ gphase = "idle"
    /\ gpts = <<>>
    /\ joints = <<>>
    /\ it = 0
    /\ out = <<>>

\* the desktop planner before any input is loaded
DeskIdle ==
    /\ d_lines = <<>>
    /\ d_pc = "idle"
    /\ d_error = ""
    /\ d_num_robots = 0
    /\ d_num_operations = 0
    /\ d_robot_bases = <<>>
    /\ d_joint_params = <<>>
    /\ d_tool_clearance = 0
    /\ d_safe_distance = 0
    /\ d_operations = <<>>
    /\ d_assignments = <<>>
    /\ d_schedules = <<>>
    /\ d_out = <<>>

Init == MainInit /\ DeskIdle /\ in_lines = <<>> /\ CallIdle /\ ProtoIdle /\ GuiIdle

Next == MainNext /\ UNCHANGED <<deskVars, in_lines, callVars, protoVars, guiVars>>

\* run_scheduler of src/test.py
Spec == Init /\ [][Next]_vars

InitDesktop == DeskInit /\ MainIdle /\ in_lines = <<>> /\ CallIdle /\ ProtoIdle /\ GuiIdle

NextDesktop == DeskNext /\ UNCHANGED <<mainVars, in_lines, callVars, protoVars, guiVars>>

\* run_scheduler of src/desktop/solver.py
SpecDesktop == InitDesktop /\ [][NextDesktop]_vars

\* the planner of src/test.py handed an input text, before load_from_lines
LoadInit ==
    /\ \E k \in DeskRobotCounts, n \in 0..MaxDeskOps, j1 \in JointLines, nj \in JointCounts,
          sl \in SafetyLines, x \in ExtraOpLines, blank \in BlankAfter :
          \E ops \in [1..(n + x) -> DeskOpLines] :
              in_lines = InputText(k, n, j1, nj, sl, ops, blank)
    /\ num_robots = 0
    /\ num_operations = 0
    /\ robot_bases = <<>>
    /\ operations = <<>>
    /\ tool_clearance = 0
    /\ safe_distance = 0
    /\ seg_ms = <<>>
    /\ schedules = <<>>
    /\ pc = "load"
    /\ error = ""
    /\ ret = "emit"
    /\ reachable = <<>>
    /\ res = <<>>
    /\ times = <<>>
    /\ pos = <<>>
    /\ opi = 0
    /\ moves = <<>>
    /\ rid = 0
    /\ wps = <<>>
    /\ t = 0
    /\ gpos = <<0, 0, 0>>
    /\ gk = 0
    /\ gphase = "idle"
    /\ gpts = <<>>
    /\ joints = <<>>
    /\ it = 0
    /\ out = <<>>

InitLoad == LoadInit /\ DeskIdle /\ CallIdle /\ ProtoIdle /\ GuiIdle

NextLoad == LoadNext /\ UNCHANGED <<deskVars, callVars, protoVars, guiVars>>

\* run_scheduler of src/test.py up to the call of solve()
SpecLoad == InitLoad /\ [][NextLoad]_vars

InitCalls == CallInit /\ MainIdle /\ DeskIdle /\ in_lines = <<>> /\ ProtoIdle /\ GuiIdle

NextCalls == CallNext /\ UNCHANGED <<mainVars, deskVars, in_lines, protoVars, guiVars>>

\* single calls of solve_ik, move_time and interpolate of src/test.py
SpecCalls == InitCalls /\ [][NextCalls]_vars

InitProto == ProtoInit /\ MainIdle /\ DeskIdle /\ in_lines = <<>> /\ CallIdle /\ GuiIdle

NextProto == ProtoNext /\ UNCHANGED <<mainVars, deskVars, in_lines, callVars, guiVars>>

\* Scheduler.solve of src/main.py after load_data
SpecProto == InitProto /\ [][NextProto]_vars

InitWindow ==
    WinInit /\ AnimIdle /\ MainIdle /\ DeskIdle /\ in_lines = <<>> /\ CallIdle /\ ProtoIdle

NextWindow ==
    WinNext /\ UNCHANGED <<mainVars, deskVars, in_lines, callVars, protoVars, animVars>>

\* the desktop window: calculate requests and solver-thread completions
SpecWindow == InitWindow /\ [][NextWindow]_vars

InitAnim ==
    AnimInit /\ WinIdle /\ MainIdle /\ DeskIdle /\ in_lines = <<>> /\ CallIdle /\ ProtoIdle

NextAnim ==
    AnimNext /\ UNCHANGED <<mainVars, deskVars, in_lines, callVars, protoVars, winVars>>

\* the animation controls of ResultsVisualPage
SpecAnim == InitAnim /\ [][NextAnim]_vars

\* ------------------------------------------------------------------------
\* Properties of the planner of src/test.py (specification Spec)
\* ------------------------------------------------------------------------
ProbeShifts == {1, 2}

\* P4 on a set of schedules: every sample 0, 5, 10, ... up to the makespan
Separated(scheds, m) ==
    \A j \in 0..(Makespan(scheds) \div collision_dt_ms) :
        \A r1 \in 1..Len(scheds) : \A r2 \in (r1 + 1)..Len(scheds) :
            ~DistLess(get_pos_at(scheds[r1], j * collision_dt_ms),
                      get_pos_at(scheds[r2], j * collision_dt_ms), m)

\* every robot but the lowest-indexed delayed by k * 200 ms
ShiftOthers(scheds, k) ==
    [r \in 1..Len(scheds) |->
        IF r = 1 THEN scheds[r]
        ELSE [i \in 1..Len(scheds[r]) |->
                 [scheds[r][i] EXCEPT !.time_ms = @ + k * ResolveDelayMs]]]

Removable(scheds, m) == \E k \in ProbeShifts : Separated(ShiftOthers(scheds, k), m)

NonDecreasing(s) == \A i \in 1..(Len(s) - 1) : s[i].time_ms <= s[i + 1].time_ms

ValidProcessTimes == \A i \in 1..num_operations : operations[i].process_time >= 0

\* a valid input on which every move takes time
OrdinaryRun == ValidProcessTimes /\ \A r \in 1..num_robots : seg_ms[r] > 0

\* C1: in every returned plan, at every sample time 0, 5, 10, ..., makespan,
\* every two distinct robots (positions clamped outside a robot's own time
\* window) are at least safe_distance + 2 * tool_clearance apart.
C1_Separation ==
    (OrdinaryRun /\ out # <<>>) => Separated(schedules, MinSafe(safe_distance, tool_clearance))

\* C2: a collision that a relative time shift between the robots removes is
\* resolved: the resolver does not give up (raise) on such a schedule.
C2_ResolverRemovesCollision ==
    (OrdinaryRun /\ pc = "failed" /\ error = "ValueError")
        => ~Removable(schedules, MinSafe(safe_distance, tool_clearance))

\* C3: with process_time >= 0, the waypoint times of every robot are
\* non-decreasing, during synthesis, after it and after every resolver shift.
C3_MonotoneTime ==
    ValidProcessTimes =>
        /\ NonDecreasing(wps)
        /\ \A r \in 1..Len(schedules) : NonDecreasing(schedules[r])

C3_Witness ==
    /\ ValidProcessTimes
    /\ pc = "resolve"
    /\ it >= 2
    /\ \E r \in 1..Len(schedules) :
          /\ Len(schedules[r]) >= 5
          /\ schedules[r][1].time_ms < schedules[r][Len(schedules[r])].time_ms

\* the line index of robot r's header in the output
HeaderAt(r) == CHOOSE i \in 1..Len(out) : out[i].kind = "robot" /\ out[i].r = r

\* the time on the last waypoint line emitted for robot r
EmittedLast(r) == out[HeaderAt(r) + out[HeaderAt(r)].m].t

\* C4: the makespan on the first output line is the maximum over all K
\* robots of the time of the robot's last emitted waypoint.
C4_Makespan ==
    out # <<>> =>
        /\ out[1].kind = "makespan"
        /\ \A r \in 1..num_robots : EmittedLast(r) <= out[1].t
        /\ \E r \in 1..num_robots : EmittedLast(r) = out[1].t

C4_Witness ==
    /\ out # <<>>
    /\ num_robots = 2
    /\ res[1] = <<>>
    /\ Len(res[2]) = 2
    /\ out[1].t > 0

\* number of waypoints of robot r before the approach of its k-th operation
RECURSIVE OpStart(_, _)
OpStart(r, k) ==
    IF k = 1 THEN 1
    ELSE LET prev == IF k = 2 THEN robot_bases[r] ELSE OpOf(r, k - 2).place_point
             o    == OpOf(r, k - 1)
         IN OpStart(r, k - 1) + InterpN(prev, o.pick_point) + 1
                              + InterpN(o.pick_point, o.place_point) + 1

\* index of the waypoint that arrives at the pick / place of the k-th op
PickArrival(r, k) ==
    OpStart(r, k) + InterpN(IF k = 1 THEN robot_bases[r] ELSE OpOf(r, k - 1).place_point,
                            OpOf(r, k).pick_point)
PlaceArrival(r, k) ==
    PickArrival(r, k) + 1 + InterpN(OpOf(r, k).pick_point, OpOf(r, k).place_point)

\* waypoints i and i+1 of s rest at p for process_time h (within 1 ms)
DwellAt(s, i, p, h) ==
    /\ i + 1 <= Len(s)
    /\ WpPos(s[i]) = p
    /\ WpPos(s[i + 1]) = p
    /\ ProcScale * (s[i + 1].time_ms - s[i].time_ms) - h <= ProcScale
    /\ h - ProcScale * (s[i + 1].time_ms - s[i].time_ms) <= ProcScale

\* C5: in every synthesised schedule, each assigned operation has a dwell
\* waypoint after the arrival at pick and one after the arrival at place,
\* each process_time (within 1 ms) after the arrival.
C5_Dwell ==
    \A r \in 1..Len(schedules) : \A k \in 1..Len(res[r]) :
        /\ DwellAt(schedules[r], PickArrival(r, k),
                   OpOf(r, k).pick_point, OpOf(r, k).process_time)
        /\ DwellAt(schedules[r], PlaceArrival(r, k),
                   OpOf(r, k).place_point, OpOf(r, k).process_time)

C5_Witness ==
    /\ pc = "check"
    /\ \E r \in 1..Len(schedules) :
          /\ Len(res[r]) = 2
          /\ OpOf(r, 1).process_time # OpOf(r, 2).process_time
          /\ Len(schedules[r]) = PlaceArrival(r, 2) + 1

\* C6: resolve_collisions on schedules for which check_collisions is true
\* changes no waypoint and does not raise.
C6_ResolverNoOp ==
    [][(pc = "resolve" /\ ~Collision) => (schedules' = schedules /\ pc' # "failed")]_vars

C6_Witness ==
    /\ pc = "done"
    /\ ret = "done"
    /\ num_robots = 2
    /\ it = 0
    /\ Len(schedules[1]) > 1
    /\ Len(schedules[2]) > 1

\* C7: when the list scheduler returns, every operation is in exactly one
\* robot's list, once, that robot was marked reachable for it, and every list
\* is in input order.
C7_Assignment ==
    (pc = "assign" /\ opi > num_operations) =>
        /\ \A i \in 1..num_operations :
              /\ Cardinality({rk \in {<<r, k>> : r \in 1..num_robots, k \in 1..num_operations} :
                                 rk[2] <= Len(res[rk[1]]) /\ res[rk[1]][rk[2]] = i}) = 1
              /\ \A r \in 1..num_robots :
                    (\E k \in 1..Len(res[r]) : res[r][k] = i) => r \in reachable[i]
        /\ \A r \in 1..num_robots : \A k \in 1..(Len(res[r]) - 1) : res[r][k] < res[r][k + 1]

C7_Witness ==
    /\ pc = "assign"
    /\ opi > num_operations
    /\ num_operations = 2
    /\ num_robots = 2
    /\ reachable[1] = {2}
    /\ reachable[2] = {1, 2}
    /\ Len(res[2]) = 2

C9_UnreachablePickFails ==
    d_pc = "done" =>
        \A i \in 1..d_num_operations : \E r \in 1..d_num_robots :
            Dist2(d_operations[i].pick_point, d_robot_bases[r]) <= max_reach * max_reach

\* the validation rules of the input format, read off the non-empty lines
\* (a line in the place of a joint, safety or operation line must have that
\* line's fields)
InputViolation(lines) ==
    LET L == NonEmptyLines(lines)
        k == L[1][1]
        n == L[1][2]
    IN \/ k < 1
       \/ n < 1
       \/ Len(L) # 1 + k + 6 + 1 + n
       \/ \E j \in 1..6 : \/ Len(L[1 + k + j]) # 4
                          \/ L[1 + k + j][1] > L[1 + k + j][2]
                          \/ L[1 + k + j][3] <= 0
                          \/ L[1 + k + j][4] <= 0
       \/ Len(L[1 + k + 7]) # 2
       \/ L[1 + k + 7][1] < 0
       \/ L[1 + k + 7][2] <= 0
       \/ \E i \in 1..n : Len(L[1 + k + 7 + i]) < 7 \/ L[1 + k + 7 + i][7] < 0

\* C10: load_from_lines raises for every input that violates a validation
\* rule, so that solve is never run on it; blank lines are not counted, so
\* an input whose non-empty lines satisfy the rules is loaded.
C10_InputErrors ==
    d_pc # "load" =>
        /\ InputViolation(d_lines) =>
              (d_pc = "failed" /\ d_assignments = <<>> /\ d_schedules = <<>> /\ d_out = <<>>)
        /\ ~InputViolation(d_lines) => d_pc # "failed"

C10_Witness ==
    /\ d_pc = "failed"
    /\ Len(d_lines) > Len(NonEmptyLines(d_lines))
    /\ NonEmptyLines(d_lines)[1] = <<2, 2>>
    /\ Len(NonEmptyLines(d_lines)) = 1 + 2 + 5 + 1 + 2

\* C13: resolve_collisions ends after at most 200 delay passes (each pass
\* counts one up); it raises only after the 200th pass with check_collisions
\* still false, and then solve has produced no output; when it returns
\* normally check_collisions is true.
C13_ResolverTerminates ==
    [][ /\ it' <= max_collision_iterations
        /\ (pc = "resolve" /\ pc' = "resolve") => it' = it + 1
        /\ (pc = "resolve" /\ pc' = "failed") =>
               /\ it = max_collision_iterations
               /\ Collision
               /\ error' = "ValueError"
        /\ pc' = "failed" => out' = <<>>
        /\ (pc = "resolve" /\ pc' \notin {"resolve", "failed"}) => ~Collision' ]_vars

C13_Witness ==
    /\ pc = "failed"
    /\ error = "ValueError"
    /\ it = max_collision_iterations
    /\ num_robots = 2

\* the index of robot r's header line in the returned text
RECURSIVE HeaderLine(_)
HeaderLine(r) == IF r = 1 THEN 2 ELSE HeaderLine(r - 1) + 1 + Len(schedules[r - 1])

\* C15: the returned text is one makespan line, then for i = 1..K in
\* ascending order the header R<i> <m_i> and exactly m_i waypoint lines with
\* integer times; parse_results recovers from it the same makespan, exactly
\* the K robots R1..RK, and for each the same number of waypoints with the
\* same times.
C15_OutputRoundTrip ==
    out # <<>> =>
        LET text   == OutText(out)
            parsed == parse_results(text)
        IN /\ Len(text) = HeaderLine(num_robots + 1) - 1
           /\ text[1] = << StrInt(out[1].t) >>
           /\ \A r \in 1..num_robots :
                 /\ text[HeaderLine(r)] = << [R |-> StrInt(r)], StrInt(Len(schedules[r])) >>
                 /\ \A i \in 1..Len(schedules[r]) :
                       /\ Len(text[HeaderLine(r) + i]) = 4
                       /\ text[HeaderLine(r) + i][1] = StrInt(schedules[r][i].time_ms)
           /\ parsed.ok
           /\ parsed.makespan = out[1].t
           /\ DOMAIN parsed.robots = {[R |-> StrInt(r)] : r \in 1..num_robots}
           /\ \A r \in 1..num_robots :
                 parsed.robots[[R |-> StrInt(r)]]
                     = [i \in 1..Len(schedules[r]) |-> schedules[r][i].time_ms]

C15_Witness ==
    /\ out # <<>>
    /\ num_robots = 2
    /\ Len(schedules[1]) > 1
    /\ Len(schedules[2]) > 1
    /\ out[1].t >= 10

\* C18: the joint vector carried by generate_trajectory_for_robot after
\* each emitted waypoint is an inverse-kinematics solution for that
\* waypoint: a failed solve at a sub-segment endpoint, inside move_time or
\* in the joint-state update after it, fails the plan instead (stated for
\* runs on valid process times and non-zero move times).
C18_CarriedJointsSolveWaypoint ==
    (OrdinaryRun /\ pc = "gen" /\ Len(wps) >= 2) => joints = WpPos(wps[Len(wps)])

\* the projected completion of robot q for operation i, given the sums mv
\* of the two move times of the pass: load + (move to pick + move pick ->
\* place) + 2 * process_time (in 1/ProcScale ms)
ProjectedOf(q, i, mv) ==
    times[q] + ProcScale * mv[q].ms + 2 * operations[i].process_time

\* C20: list scheduling takes the operations in input order and gives each
\* to the eligible robot with the least projected completion time, the
\* lowest index among equals; that robot's load becomes the projected
\* completion and its last position the place point, and no other robot's
\* load or position changes.
C20_ListScheduling ==
    [][ (pc = "assign" /\ res' # res) =>
          \E b \in Eligible(opi) :
              /\ moves'[b].ok
              /\ \A q \in Eligible(opi) :
                    moves'[q].ok =>
                        \/ ProjectedOf(b, opi, moves') < ProjectedOf(q, opi, moves')
                        \/ /\ ProjectedOf(b, opi, moves') = ProjectedOf(q, opi, moves')
                           /\ b <= q
              /\ res' = [res EXCEPT ![b] = Append(@, opi)]
              /\ times' = [times EXCEPT ![b] = ProjectedOf(b, opi, moves')]
              /\ pos' = [pos EXCEPT ![b] = operations[opi].place_point]
              /\ opi' = opi + 1 ]_vars

\* the second robot has just been given an operation although the first
\* was eligible too, and the first robot's load and position are untouched
C20_Witness ==
    /\ pc = "assign"
    /\ num_robots = 2
    /\ opi = 2
    /\ res = << <<>>, <<1>> >>
    /\ Eligible(1) = {1, 2}
    /\ moves[1].ok
    /\ times[1] = 0
    /\ pos[1] = robot_bases[1]

\* C22: resolve_collisions changes nothing but waypoint times.  In every
\* step of the resolver the number and order of the waypoints and their
\* x, y, z stay, every waypoint of every robot gets 200 ms per pass counted
\* in this step (so that after k passes each first waypoint, emitted at time
\* 0, stands at k * 200 ms), and the time difference between any two
\* waypoints, of one robot or of two, stays what it was.
C22_ResolverShiftsTimesOnly ==
    [][ pc = "resolve" =>
          /\ Len(schedules') = Len(schedules)
          /\ \A r \in 1..Len(schedules) :
                /\ Len(schedules'[r]) = Len(schedules[r])
                /\ schedules'[r][1].time_ms = it' * ResolveDelayMs
                /\ \A i \in 1..Len(schedules[r]) :
                      /\ WpPos(schedules'[r][i]) = WpPos(schedules[r][i])
                      /\ schedules'[r][i].time_ms
                             = schedules[r][i].time_ms + (it' - it) * ResolveDelayMs
                      /\ \A q \in 1..Len(schedules) : \A j \in 1..Len(schedules[q]) :
                            schedules'[r][i].time_ms - schedules'[q][j].time_ms
                                = schedules[r][i].time_ms - schedules[q][j].time_ms
          /\ UNCHANGED <<robot_bases, operations, out>> ]_vars

C22_Witness ==
    /\ pc = "resolve"
    /\ it = 3
    /\ num_robots = 2
    /\ Len(schedules[1]) > 1
    /\ Len(schedules[2]) > 1
    /\ schedules[2][Len(schedules[2])].time_ms > 3 * ResolveDelayMs

\* ------------------------------------------------------------------------
\* Properties of load_from_lines of src/test.py (specification SpecLoad)
\* ------------------------------------------------------------------------
\* C11: run_scheduler validates the input before planning: an input that
\* violates a validation rule never gets as far as solve() (assignment,
\* synthesis and collision resolution are not run on it).
C11_ValidatedBeforePlanning ==
    pc = "solve" => ~InputViolation(in_lines)

\* ------------------------------------------------------------------------
\* Further properties of the desktop planner (specification SpecDesktop)
\* ------------------------------------------------------------------------
\* the line index of robot r's header in the desktop planner's output
DeskHeaderAt(r) == CHOOSE i \in 1..Len(d_out) : d_out[i].kind = "robot" /\ d_out[i].r = r

\* C12: in a returned plan every robot that was assigned no operation is
\* emitted with waypoint count 1, and its single waypoint has time 0 and
\* the coordinates of the robot's base.
C12_IdleRobotAtBase ==
    d_pc = "done" =>
        \A r \in 1..d_num_robots :
            d_assignments[r] = <<>> =>
                /\ d_out[DeskHeaderAt(r)].m = 1
                /\ d_out[DeskHeaderAt(r) + 1].t = 0
                /\ d_out[DeskHeaderAt(r) + 1].p = d_robot_bases[r]

\* robot r of the desktop plan stands still at time tm: it has no waypoint
\* but the emitted home waypoint, or tm is not inside its time window
DeskResting(r, tm) ==
    \/ d_schedules[r] = <<>>
    \/ tm <= d_schedules[r][1].time_ms
    \/ tm >= d_schedules[r][Len(d_schedules[r])].time_ms

DeskRestPos(r, tm) ==
    IF d_schedules[r] = <<>> THEN get_home_position(d_robot_bases[r])
    ELSE IF tm <= d_schedules[r][1].time_ms THEN WpPos(d_schedules[r][1])
    ELSE WpPos(d_schedules[r][Len(d_schedules[r])])

\* C14: the plan run_scheduler of the desktop planner returns keeps every
\* two distinct robots at least safe_distance + 2 * tool_clearance apart at
\* every instant up to the makespan (stated here at the instants of the
\* waypoints of one robot while the other stands still); otherwise the run
\* fails.
C14_DesktopSeparation ==
    d_pc = "done" =>
        \A r1 \in 1..d_num_robots, r2 \in 1..d_num_robots :
            r1 # r2 =>
                \A i \in 1..Len(d_schedules[r1]) :
                    DeskResting(r2, d_schedules[r1][i].time_ms) =>
                        Dist2(WpPos(d_schedules[r1][i]),
                              DeskRestPos(r2, d_schedules[r1][i].time_ms))
                            >= (d_safe_distance + 2 * d_tool_clearance)
                               * (d_safe_distance + 2 * d_tool_clearance)

\* ------------------------------------------------------------------------
\* Properties of single calls (specification SpecCalls)
\* ------------------------------------------------------------------------
\* C16: solve_ik returns a joint vector only if the position error left is
\* below 1e-3 m (10 tenths of a millimetre) and every joint is within its
\* limits; otherwise it returns None.
C16_IkResidualAndLimits ==
    (call_fn = "solve_ik" /\ call_done /\ call_ret # None) =>
        /\ call_args.res.err < 10
        /\ WithinLimits(call_ret, CallJointParams)

\* C17: move_time returns +infinity whenever the inverse kinematics fails
\* at the start point or at the end point, and a finite time only when both
\* solves succeed.
C17_MoveTimeInfinite ==
    (call_fn = "move_time" /\ call_done) =>
        (call_ret.inf <=>
            \/ solve_ik(call_args.res_start, CallJointParams) = None
            \/ solve_ik(call_args.res_end, CallJointParams) = None)

\* y lies on the straight segment from a to b
OnSegment(a, b, y) ==
    /\ (y[1] - a[1]) * (b[2] - a[2]) = (y[2] - a[2]) * (b[1] - a[1])
    /\ (y[1] - a[1]) * (b[3] - a[3]) = (y[3] - a[3]) * (b[1] - a[1])
    /\ (y[2] - a[2]) * (b[3] - a[3]) = (y[3] - a[3]) * (b[2] - a[2])
    /\ \A c \in 1..3 : Min2(a[c], b[c]) <= y[c] /\ y[c] <= Max2(a[c], b[c])

\* C19: for all points a, b the points interpolate returns lie on the
\* straight segment from a to b, the last one is b, and every sub-segment
\* (from a to the first point, and between consecutive points) is at most
\* segment_length long.
C19_SubSegmentLength ==
    (call_fn = "interpolate" /\ call_done) =>
        LET a   == call_args.a
            b   == call_args.b
            pts == call_ret
        IN /\ pts # <<>>
           /\ pts[Len(pts)] = b
           /\ \A k \in 1..Len(pts) :
                 /\ OnSegment(a, b, pts[k])
                 /\ Dist2(IF k = 1 THEN a ELSE pts[k - 1], pts[k])
                        <= segment_length * segment_length

\* C21: joint_time takes the triangular formula exactly when 2 * s_acc >=
\* |delta| and the trapezoidal formula otherwise; at |delta| = v * v / a the
\* two formulas give the same value 2 * v / a (2000 * v / a ms); the result
\* is 0 for delta = 0 and does not decrease when |delta| grows.
C21_JointTimeContinuous ==
    (call_fn = "joint_time" /\ call_done) =>
        LET s == Abs(call_args.delta)
            p == call_args.p
            v == p.max_velocity
            a == p.max_acceleration
        IN /\ v * v >= s * a => call_ret = TriangularMs(s, p)
           /\ v * v < s * a => call_ret = TrapezoidMs(s, p)
           /\ s * a = v * v =>
                 /\ TriangularMs(s, p) = TrapezoidMs(s, p)
                 /\ call_ret = (2000 * v) \div a
           /\ \A d \in 0..s :
                 /\ joint_time(d, p) <= call_ret
                 /\ (d * a = v * v /\ d < s) => TrapezoidMs(d, p) <= call_ret
           /\ call_args.delta = 0 => call_ret = 0

\* a call at the boundary travel, with a negative delta
C21_Witness ==
    /\ call_fn = "joint_time"
    /\ call_done
    /\ call_args.delta < 0
    /\ Abs(call_args.delta) * call_args.p.max_acceleration
           = call_args.p.max_velocity * call_args.p.max_velocity
    /\ call_ret > 0

\* ------------------------------------------------------------------------
\* Properties of the prototype Scheduler (specification SpecProto)
\* ------------------------------------------------------------------------
\* robot r's trajectory carries out operation op: its four waypoints (pick,
\* pick after the dwell, place, place after the dwell) are there in a row
ProtoCarries(r, op) ==
    \E k \in 2..(Len(p_schedules[r]) - 3) :
        /\ WpPos(p_schedules[r][k]) = op.pick
        /\ WpPos(p_schedules[r][k + 1]) = op.pick
        /\ p_schedules[r][k + 1].time_ms = p_schedules[r][k].time_ms + op.t
        /\ WpPos(p_schedules[r][k + 2]) = op.place
        /\ WpPos(p_schedules[r][k + 3]) = op.place

RECURSIVE ProtoOpCount(_)
ProtoOpCount(r) ==
    IF r = 0 THEN 0 ELSE ProtoOpCount(r - 1) + (Len(p_schedules[r]) - 1) \div 4

\* C23: when the prototype returns a plan, every input operation is carried
\* out in one robot's trajectory (and the trajectories hold as many
\* operations as the input), and the emitted schedules pass the
\* check_collisions of the prototype: a plan with an operation no robot can
\* take, or with collisions left after the last attempt, fails instead.
C23_PrototypeFailsPlan ==
    p_pc = "done" =>
        /\ \A i \in 1..Len(p_ops) : \E r \in 1..p_num_robots : ProtoCarries(r, p_ops[i])
        /\ ProtoOpCount(p_num_robots) = Len(p_ops)
        /\ ~ProtoCollision

\* ------------------------------------------------------------------------
\* Properties of the desktop window (specification SpecWindow)
\* ------------------------------------------------------------------------
\* the result, operations and bases of one display_results call come from
\* one and the same text
PairedCall(call) ==
    \E text \in WinTexts :
        /\ call.results = WinResults(text)
        /\ call.operations = WinOperations(text)
        /\ call.robot_bases = WinRobotBases(text)

\* C24: whatever the interleaving of calculate requests and solver-thread
\* completions, every result passed to display_results comes with the
\* operations and robot bases of the request whose text produced it.
C24_ResultPairedWithRequest ==
    \A i \in 1..Len(w_shown) : PairedCall(w_shown[i])

\* ------------------------------------------------------------------------
\* Properties of the animation of ResultsVisualPage (specification SpecAnim)
\* ------------------------------------------------------------------------
\* the time stays within the plan and the timer runs exactly while animating
AnimStateOk ==
    a_displayed =>
        /\ 0 <= a_current_time
        /\ a_current_time <= a_makespan
        /\ a_timer_active = a_is_animating

\* a tick while animating advances the time by step_size, or, when that
\* reaches the makespan, leaves the time at the makespan with the animation
\* paused
TickAdvancesOrEnds ==
    A_Tick /\ a_is_animating =>
        IF a_current_time + step_size < a_makespan
        THEN a_current_time' = a_current_time + step_size /\ a_is_animating'
        ELSE a_current_time' = a_makespan /\ ~a_is_animating' /\ ~a_timer_active'

\* C25: after display_results and any sequence of play, pause, reset, speed
\* change, slider move and timer tick, the time is within 0..makespan and
\* the timer runs exactly when is_animating holds; while animating each tick
\* advances the time by step_size until it reaches the makespan, where the
\* time equals the makespan and the animation is paused.
C25_AnimationInvariants ==
    []AnimStateOk /\ [][TickAdvancesOrEnds]_vars

====
